---- MODULE Spec2Model ----
(***************************************************************************)
(* Model of service/base.py: the ServiceBase lifecycle state machine, the  *)
(* heartbeat reporter loop and the control listener loop, scheduled        *)
(* cooperatively on one event loop by start_service.                       *)
(*                                                                         *)
(* A step of the model is one run of a coroutine from one suspension point *)
(* to the next (or one event of the environment: the monitor, the clock).  *)
(* start() is split at the call of run() so that the intermediate value    *)
(* `starting` is a state of the model; `frame` keeps every other coroutine *)
(* off the loop in between, as the code has no suspension point there.     *)
(***************************************************************************)
EXTENDS Integers, Sequences, FiniteSets, TLC

(***************************************************************************)
(* Bounds                                                                  *)
(***************************************************************************)
\* messages the SUB socket may hold undelivered
MaxQueue == 1

(***************************************************************************)
(* class ServiceState(Enum): a member has a name and a value               *)
(***************************************************************************)
ServiceState_init == [name |-> "init", value |-> "init"]

ServiceState_starting == [name |-> "starting", value |-> "starting"]

ServiceState_started == [name |-> "started", value |-> "started"]

ServiceState_stopping == [name |-> "stopping", value |-> "stopping"]

ServiceState_stopped == [name |-> "stopped", value |-> "stopped"]

ServiceState ==
  { ServiceState_init, ServiceState_starting, ServiceState_started,
    ServiceState_stopping, ServiceState_stopped }

\* a member of another Enum class: an Enum instance that is not in ServiceState
OtherEnum_started == [name |-> "started", value |-> "started", cls |-> "OtherEnum"]

\* Arguments handed to _set_state: members, a foreign Enum member, and
\* plain values (str / None) that are not Enum instances at all.
Plain(v) == [plain |-> v]

StateArgs ==
  ServiceState \cup { OtherEnum_started }
               \cup { Plain("started"), Plain("bogus"), Plain("None") }

\* isinstance(x, Enum)
IsEnumInstance(x) == "name" \in DOMAIN x

\* self.sid
sid == "servicebase"

\* asyncio.sleep(10)
HeartbeatInterval == 10

(***************************************************************************)
(* dict: a sequence of <<key, value>> pairs with distinct keys, in         *)
(* insertion order                                                         *)
(***************************************************************************)
Absent == "<absent>"

dict_has(d, k) == \E i \in 1..Len(d) : d[i][1] = k

dict_get(d, k) ==
  IF dict_has(d, k) THEN d[CHOOSE i \in 1..Len(d) : d[i][1] = k][2] ELSE Absent

dict_set(d, k, v) ==
  IF dict_has(d, k)
  THEN [i \in 1..Len(d) |-> IF d[i][1] = k THEN <<k, v>> ELSE d[i]]
  ELSE Append(d, <<k, v>>)

RECURSIVE dict_update(_, _)
dict_update(d, u) ==
  IF u = <<>> THEN d
  ELSE dict_update(dict_set(d, Head(u)[1], Head(u)[2]), Tail(u))

(***************************************************************************)
(* json                                                                    *)
(***************************************************************************)
\* json.dumps of a dict of strings: the JSON object with the members in
\* dict order
json_dumps(d) == [type |-> "object", members |-> d]

\* Payloads the monitor (or anyone on the bus) may publish on the control
\* channel.
ControlWire ==
  { "{\"sid\": \"servicebase\", \"action\": \"stop\"}",
    "{\"sid\": \"servicebase\", \"action\": \"start\"}",
    "{\"sid\": \"servicebase\", \"action\": \"pause\"}",
    "{\"sid\": \"w2\", \"action\": \"stop\"}",
    "{\"sid\": \"w2\", \"action\": \"start\"}",
    "{\"sid\": \"w2\"}",
    "{\"sid\": \"servicebase\"}",
    "{\"action\": \"stop\"}",
    "[1]",
    "stop" }

\* json.loads on those payloads: ok = FALSE is JSONDecodeError
json_loads(w) ==
  CASE w = "{\"sid\": \"servicebase\", \"action\": \"stop\"}" ->
         [ok |-> TRUE, type |-> "dict",
          val |-> << <<"sid", "servicebase">>, <<"action", "stop">> >>]
    [] w = "{\"sid\": \"servicebase\", \"action\": \"start\"}" ->
         [ok |-> TRUE, type |-> "dict",
          val |-> << <<"sid", "servicebase">>, <<"action", "start">> >>]
    [] w = "{\"sid\": \"servicebase\", \"action\": \"pause\"}" ->
         [ok |-> TRUE, type |-> "dict",
          val |-> << <<"sid", "servicebase">>, <<"action", "pause">> >>]
    [] w = "{\"sid\": \"w2\", \"action\": \"stop\"}" ->
         [ok |-> TRUE, type |-> "dict",
          val |-> << <<"sid", "w2">>, <<"action", "stop">> >>]
    [] w = "{\"sid\": \"w2\", \"action\": \"start\"}" ->
         [ok |-> TRUE, type |-> "dict",
          val |-> << <<"sid", "w2">>, <<"action", "start">> >>]
    [] w = "{\"sid\": \"w2\"}" ->
         [ok |-> TRUE, type |-> "dict", val |-> << <<"sid", "w2">> >>]
    [] w = "{\"sid\": \"servicebase\"}" ->
         [ok |-> TRUE, type |-> "dict", val |-> << <<"sid", "servicebase">> >>]
    [] w = "{\"action\": \"stop\"}" ->
         [ok |-> TRUE, type |-> "dict", val |-> << <<"action", "stop">> >>]
    [] w = "[1]" ->
         [ok |-> TRUE, type |-> "list", val |-> <<>>]
    [] OTHER ->
         [ok |-> FALSE, type |-> "none", val |-> <<>>]

(***************************************************************************)
(* ServiceBase methods, as functions of the state they read.  A result is  *)
(* [state, ev, ok]: the state afterwards, the events of the call in order  *)
(* and whether it returned normally.  An event is a pair:                  *)
(*   <<"call", f>>   method f entered                                      *)
(*   <<"write", v>>  self.state assigned the member whose value is v       *)
(*   <<"log", l>>    a log record                                          *)
(*   <<"raise", e>>  exception e left the method                           *)
(***************************************************************************)
\* enum_contains testing isinstance(state, Enum) only
enum_contains_isinstance(x) ==
  IF ~IsEnumInstance(x) THEN "TypeError" ELSE "True"

\* `state in ServiceState`: a member gives True, another Enum's member gives
\* False, and a non-Enum operand raises TypeError (EnumType.__contains__).
\* Returns "True", "False" or "TypeError".
enum_contains(x) ==
  IF ~IsEnumInstance(x) THEN "TypeError"
  ELSE IF x \in ServiceState THEN "True" ELSE "False"

_set_state(st, x) ==
  LET c == enum_contains(x) IN
  IF c = "True"
  THEN [state |-> x, ok |-> TRUE,
        ev |-> << <<"call", "_set_state">>, <<"write", x.value>>,
                  <<"log", "info.set">> >>]
  ELSE IF c = "False"
  THEN [state |-> st, ok |-> FALSE,
        ev |-> << <<"call", "_set_state">>, <<"log", "error.invalid">>,
                  <<"raise", "RuntimeError">> >>]
  ELSE [state |-> st, ok |-> FALSE,
        ev |-> << <<"call", "_set_state">>, <<"raise", "TypeError">> >>]

\* run without the already-started guard
run_unguarded(st) ==
  [state |-> ServiceState_started, ok |-> TRUE,
   ev |-> << <<"call", "run">>, <<"write", ServiceState_started.value>> >>]

\* run with the two awaits of the hooks in place
run_hooks(st) ==
  IF st = ServiceState_started
  THEN [state |-> st, ok |-> TRUE,
        ev |-> << <<"call", "run">>, <<"log", "error.run">> >>]
  ELSE [state |-> ServiceState_started, ok |-> TRUE,
        ev |-> << <<"call", "run">>, <<"write", ServiceState_started.value>>,
                  <<"call", "pub_msg">>, <<"call", "sub_msg">> >>]

\* run that goes on only from starting
run_only_starting(st) ==
  IF st # ServiceState_starting
  THEN [state |-> st, ok |-> TRUE,
        ev |-> << <<"call", "run">>, <<"log", "error.run">> >>]
  ELSE [state |-> ServiceState_started, ok |-> TRUE,
        ev |-> << <<"call", "run">>, <<"write", ServiceState_started.value>> >>]

run(st) ==
  IF st = ServiceState_started
  THEN [state |-> st, ok |-> TRUE,
        ev |-> << <<"call", "run">>, <<"log", "error.run">> >>]
  ELSE [state |-> ServiceState_started, ok |-> TRUE,
        ev |-> << <<"call", "run">>, <<"write", ServiceState_started.value>> >>]

\* start that leaves the state as it finds it
start_noset(st) ==
  [state |-> st, ok |-> TRUE,
   ev |-> << <<"call", "start">>, <<"log", "info.starting">> >>]

\* start() up to its `await self.run()`
start(st) ==
  LET r == _set_state(st, ServiceState_starting) IN
  [state |-> r.state, ok |-> r.ok,
   ev |-> << <<"call", "start">> >> \o r.ev
          \o (IF r.ok THEN << <<"log", "info.starting">> >> ELSE <<>>)]

\* stop that acts only on a started service
stop_guarded(st) ==
  IF st = ServiceState_started
  THEN LET r == _set_state(st, ServiceState_stopped) IN
       [state |-> r.state, ok |-> r.ok,
        ev |-> << <<"call", "stop">> >> \o r.ev
               \o << <<"log", "info.stopped">> >>]
  ELSE [state |-> st, ok |-> TRUE, ev |-> << <<"call", "stop">> >>]

\* stop that puts the service back to init
stop_to_init(st) ==
  LET r == _set_state(st, ServiceState_init) IN
  [state |-> r.state, ok |-> r.ok,
   ev |-> << <<"call", "stop">> >> \o r.ev
          \o << <<"log", "info.stopped">> >>]

\* stop that sets stopping
stop_via_stopping(st) ==
  LET r == _set_state(st, ServiceState_stopping) IN
  [state |-> r.state, ok |-> r.ok,
   ev |-> << <<"call", "stop">> >> \o r.ev
          \o << <<"log", "info.stopped">> >>]

stop(st) ==
  LET r == _set_state(st, ServiceState_stopped) IN
  [state |-> r.state, ok |-> r.ok,
   ev |-> << <<"call", "stop">> >> \o r.ev
          \o (IF r.ok THEN << <<"log", "info.stopped">> >> ELSE <<>>)]

status(st) == st.value

\* the two hooks have empty bodies
pub_msg(st) == [state |-> st, ok |-> TRUE, ev |-> << <<"call", "pub_msg">> >>]

sub_msg(st) == [state |-> st, ok |-> TRUE, ev |-> << <<"call", "sub_msg">> >>]

\* on_control_msg without the sid test
on_control_msg_anysid(st, w) ==
  LET j == json_loads(w)
      got == << <<"recv", w>> >>
      fail(e) == [state |-> st, ok |-> FALSE, ev |-> got \o << <<"raise", e>> >>]
      skip == [state |-> st, ok |-> TRUE, ev |-> got]
      then(r) == [state |-> r.state, ok |-> r.ok, ev |-> got \o r.ev]
  IN
  IF ~j.ok THEN fail("JSONDecodeError")
  ELSE IF j.type # "dict" THEN fail("TypeError")
  ELSE IF ~dict_has(j.val, "action") THEN fail("KeyError")
  ELSE IF dict_get(j.val, "action") = "stop" THEN then(stop(st))
  ELSE IF dict_get(j.val, "action") = "start" THEN then(run(st))
  ELSE skip

\* on_control_msg answering a start command with start() instead of run()
on_control_msg_start(st, w) ==
  LET j == json_loads(w)
      got == << <<"recv", w>> >>
      fail(e) == [state |-> st, ok |-> FALSE, ev |-> got \o << <<"raise", e>> >>]
      skip == [state |-> st, ok |-> TRUE, ev |-> got]
      then(r) == [state |-> r.state, ok |-> r.ok, ev |-> got \o r.ev]
      s1 == start(st)
      s2 == run(s1.state)
  IN
  IF ~j.ok THEN fail("JSONDecodeError")
  ELSE IF j.type # "dict" THEN fail("TypeError")
  ELSE IF ~dict_has(j.val, "sid") THEN fail("KeyError")
  ELSE IF dict_get(j.val, "sid") # sid THEN skip
  ELSE IF ~dict_has(j.val, "action") THEN fail("KeyError")
  ELSE IF dict_get(j.val, "action") = "stop" THEN then(stop(st))
  ELSE IF dict_get(j.val, "action") = "start"
  THEN then([state |-> s2.state, ok |-> s2.ok, ev |-> s1.ev \o s2.ev])
  ELSE skip

\* on_control_msg reading the keys with msg.get(): a missing key matches
\* nothing
on_control_msg_tolerant(st, w) ==
  LET j == json_loads(w)
      got == << <<"recv", w>> >>
      fail(e) == [state |-> st, ok |-> FALSE, ev |-> got \o << <<"raise", e>> >>]
      skip == [state |-> st, ok |-> TRUE, ev |-> got]
      then(r) == [state |-> r.state, ok |-> r.ok, ev |-> got \o r.ev]
  IN
  IF ~j.ok THEN fail("JSONDecodeError")
  ELSE IF j.type # "dict" THEN fail("AttributeError")
  ELSE IF dict_get(j.val, "sid") # sid THEN skip
  ELSE IF dict_get(j.val, "action") = "stop" THEN then(stop(st))
  ELSE IF dict_get(j.val, "action") = "start" THEN then(run(st))
  ELSE skip

\* on_control_msg with `else` in place of `elif msg['action'] == 'start'`
on_control_msg_else_run(st, w) ==
  LET j == json_loads(w)
      got == << <<"recv", w>> >>
      fail(e) == [state |-> st, ok |-> FALSE, ev |-> got \o << <<"raise", e>> >>]
      skip == [state |-> st, ok |-> TRUE, ev |-> got]
      then(r) == [state |-> r.state, ok |-> r.ok, ev |-> got \o r.ev]
  IN
  IF ~j.ok THEN fail("JSONDecodeError")
  ELSE IF j.type # "dict" THEN fail("TypeError")
  ELSE IF ~dict_has(j.val, "sid") THEN fail("KeyError")
  ELSE IF dict_get(j.val, "sid") # sid THEN skip
  ELSE IF ~dict_has(j.val, "action") THEN fail("KeyError")
  ELSE IF dict_get(j.val, "action") = "stop" THEN then(stop(st))
  ELSE then(run(st))

\* One iteration of the on_control_msg loop, from the string w that
\* recv_string returned; the first event is <<"recv", w>>.
on_control_msg(st, w) ==
  LET j == json_loads(w)
      got == << <<"recv", w>> >>
      fail(e) == [state |-> st, ok |-> FALSE, ev |-> got \o << <<"raise", e>> >>]
      skip == [state |-> st, ok |-> TRUE, ev |-> got]
      then(r) == [state |-> r.state, ok |-> r.ok, ev |-> got \o r.ev]
  IN
  IF ~j.ok THEN fail("JSONDecodeError")
  ELSE IF j.type # "dict" THEN fail("TypeError")
  ELSE IF ~dict_has(j.val, "sid") THEN fail("KeyError")
  ELSE IF dict_get(j.val, "sid") # sid THEN skip
  ELSE IF ~dict_has(j.val, "action") THEN fail("KeyError")
  ELSE IF dict_get(j.val, "action") = "stop" THEN then(stop(st))
  ELSE IF dict_get(j.val, "action") = "start" THEN then(run(st))
  ELSE skip

\* heartbeat keeping the keys infos already has (setdefault, not update)
heartbeat_setdefault(infos0, st) ==
  LET live == << <<"sid", sid>>, <<"type", "heartbeat">>, <<"state", st.value>> >>
      missing == SelectSeq(live, LAMBDA p : ~dict_has(infos0, p[1]))
  IN dict_update(infos0, missing)

\* heartbeat leaving the sid to the caller's infos
heartbeat_keep_sid(infos0, st) ==
  dict_update(infos0, << <<"type", "heartbeat">>, <<"state", st.value>> >>)

\* heartbeat: infos.update({...}) with the live values
heartbeat(infos0, st) ==
  dict_update(infos0, << <<"sid", sid>>, <<"type", "heartbeat">>,
                         <<"state", st.value>> >>)

\* start_service spawning the reporter first
start_service_hb_first == <<"heartbeat", "start", "on_control_msg">>

\* start_service: the order of the three spawn_callback calls
start_service == <<"start", "on_control_msg", "heartbeat">>

\* the `infos` dicts a caller may hand to start_service
InfosInputs ==
  { <<>>,
    << <<"name", "feed">> >>,
    << <<"sid", "spoof">>, <<"state", "bogus">>, <<"type", "x">> >> }

(***************************************************************************)
(* State                                                                   *)
(***************************************************************************)
VARIABLES
  state,     \* self.state
  frame,     \* "start" while a start() call stands at its await self.run()
  ready,     \* callbacks spawned and not yet run for the first time (FIFO)
  ctl,       \* on_control_msg: "boot", "recv" (awaiting recv_string), "dead"
  hb,        \* heartbeat: "boot", "send", "recv", "sleep", "dead"
  timer,     \* time units left of the reporter's sleep
  infos,     \* the dict handed to heartbeat, updated in place
  outbox,    \* the string handed to send_string and not yet on the wire
  reqq,      \* heartbeat requests on the wire to the monitor
  repq,      \* replies delivered to the REQ socket and not yet received
  unacked,   \* heartbeats sent whose reply the reporter has not received
  subq,      \* control messages delivered to the SUB socket, oldest first
  ev,        \* events of the last step of the worker, in order
  prev,      \* self.state when the last step of the worker began
  arg,       \* argument of the last direct _set_state call
  ret        \* value returned by the last direct status() call

vars ==
  <<state, frame, ready, ctl, hb, timer, infos, outbox, reqq, repq, unacked,
    subq, ev, prev, arg, ret>>

NoMsg == [type |-> "none", members |-> <<>>]

NoArg == [none |-> TRUE]

Init ==
  /\ state = ServiceState_init
  /\ frame = "none"
  /\ ready = start_service
  /\ ctl = "boot"
  /\ hb = "boot"
  /\ timer = 0
  /\ infos \in InfosInputs
  /\ outbox = NoMsg
  /\ reqq = <<>>
  /\ repq = <<>>
  /\ unacked = 0
  /\ subq = <<>>
  /\ ev = <<>>
  /\ prev = ServiceState_init
  /\ arg = NoArg
  /\ ret = "None"

\* the loop is free to run a callback
Idle == frame = "none"

\* `task` is the next spawned callback to run for the first time
Next1(task) == Idle /\ ready # <<>> /\ Head(ready) = task

\* A coroutine suspended in an await is resumed by a callback that the loop
\* queues when the awaited future completes.  The loop runs its callbacks
\* in FIFO order and the three spawned callbacks are queued before it
\* starts, so no coroutine is resumed before all three have run once.
Resumed == Idle /\ ready = <<>>

hbvars == <<hb, timer, infos, outbox, reqq, repq, unacked>>

ctlvars == <<ctl, subq>>

\* a step of the worker that applies the result r of a method
Apply(r) ==
  /\ state' = r.state
  /\ ev' = r.ev
  /\ prev' = state

(***************************************************************************)
(* start()                                                                 *)
(***************************************************************************)
\* first run of the spawned service.start, up to await self.run()
BootStart ==
  /\ Next1("start")
  /\ Apply(start(state))
  /\ frame' = IF start(state).ok THEN "start" ELSE "none"
  /\ ready' = Tail(ready)
  /\ UNCHANGED <<arg, ret>>
  /\ UNCHANGED ctlvars
  /\ UNCHANGED hbvars

\* the awaited run() of a start() call
StartRun ==
  /\ frame = "start"
  /\ Apply(run(state))
  /\ frame' = "none"
  /\ UNCHANGED <<ready, arg, ret>>
  /\ UNCHANGED ctlvars
  /\ UNCHANGED hbvars

(***************************************************************************)
(* on_control_msg                                                          *)
(***************************************************************************)
\* first run: enters the loop and suspends in recv_string
CtlBoot ==
  /\ Next1("on_control_msg")
  /\ ctl = "boot"
  /\ ctl' = "recv"
  /\ ready' = Tail(ready)
  /\ ev' = << <<"task", "on_control_msg">> >>
  /\ prev' = state
  /\ UNCHANGED <<state, frame, subq, arg, ret>>
  /\ UNCHANGED hbvars

\* the listener kept off the loop while the reporter waits for its reply
\* (a blocking receive in the reporter)
CtlRecv_blocked ==
  /\ Resumed
  /\ hb # "recv"
  /\ ctl = "recv"
  /\ subq # <<>>
  /\ Apply(on_control_msg(state, Head(subq)))
  /\ ctl' = IF on_control_msg(state, Head(subq)).ok THEN "recv" ELSE "dead"
  /\ subq' = Tail(subq)
  /\ UNCHANGED <<frame, ready, arg, ret>>
  /\ UNCHANGED hbvars

\* recv_string returns the oldest message; one iteration of the loop
CtlRecv ==
  /\ Resumed
  /\ ctl = "recv"
  /\ subq # <<>>
  /\ Apply(on_control_msg(state, Head(subq)))
  /\ ctl' = IF on_control_msg(state, Head(subq)).ok THEN "recv" ELSE "dead"
  /\ subq' = Tail(subq)
  /\ UNCHANGED <<frame, ready, arg, ret>>
  /\ UNCHANGED hbvars

\* recv_string raises (transport error)
CtlRecvFail ==
  /\ Resumed
  /\ ctl = "recv"
  /\ ctl' = "dead"
  /\ ev' = << <<"task", "on_control_msg">>, <<"raise", "ZMQError">> >>
  /\ prev' = state
  /\ UNCHANGED <<state, frame, ready, subq, arg, ret>>
  /\ UNCHANGED hbvars

\* the monitor publishes a message; the SUB socket queues it
MonitorPublish ==
  /\ Len(subq) < MaxQueue
  /\ \E w \in ControlWire : subq' = Append(subq, w)
  /\ UNCHANGED <<state, frame, ready, ctl, ev, prev, arg, ret>>
  /\ UNCHANGED hbvars

(***************************************************************************)
(* heartbeat                                                               *)
(***************************************************************************)
\* top of the loop: update infos, dump it, hand it to send_string
HbCycle ==
  /\ infos' = heartbeat(infos, state)
  /\ outbox' = json_dumps(infos')
  /\ hb' = "send"
  /\ ev' = << <<"task", "heartbeat">>, <<"build", dict_get(infos', "state")>> >>
  /\ prev' = state
  /\ UNCHANGED <<state, frame, timer, reqq, repq, unacked, arg, ret>>
  /\ UNCHANGED ctlvars

HbBoot ==
  /\ Next1("heartbeat")
  /\ hb = "boot"
  /\ ready' = Tail(ready)
  /\ HbCycle

\* send_string completes: the request is on the wire
HbSendOk ==
  /\ Resumed
  /\ hb = "send"
  /\ reqq' = Append(reqq, outbox)
  /\ outbox' = NoMsg
  /\ unacked' = unacked + 1
  /\ hb' = "recv"
  /\ ev' = << <<"task", "heartbeat">>, <<"io", "sent">> >>
  /\ prev' = state
  /\ UNCHANGED <<state, frame, ready, timer, infos, repq, arg, ret>>
  /\ UNCHANGED ctlvars

\* send_string raises
HbSendFail ==
  /\ Resumed
  /\ hb = "send"
  /\ hb' = "dead"
  /\ outbox' = NoMsg
  /\ ev' = << <<"task", "heartbeat">>, <<"raise", "ZMQError">> >>
  /\ prev' = state
  /\ UNCHANGED <<state, frame, ready, timer, infos, reqq, repq, unacked, arg,
                 ret>>
  /\ UNCHANGED ctlvars

\* recv_string returns a reply, which is dropped; the sleep starts
HbRecvOk ==
  /\ Resumed
  /\ hb = "recv"
  /\ repq # <<>>
  /\ repq' = Tail(repq)
  /\ unacked' = unacked - 1
  /\ hb' = "sleep"
  /\ timer' = HeartbeatInterval
  /\ ev' = << <<"task", "heartbeat">>, <<"io", "received">> >>
  /\ prev' = state
  /\ UNCHANGED <<state, frame, ready, infos, outbox, reqq, arg, ret>>
  /\ UNCHANGED ctlvars

\* a receive failure caught in the loop, which goes on to the sleep
HbRecvFail_retry ==
  /\ Resumed
  /\ hb = "recv"
  /\ hb' = "sleep"
  /\ timer' = HeartbeatInterval
  /\ ev' = << <<"task", "heartbeat">>, <<"raise", "ZMQError">> >>
  /\ prev' = state
  /\ UNCHANGED <<state, frame, ready, infos, outbox, reqq, repq, unacked, arg,
                 ret>>
  /\ UNCHANGED ctlvars

\* recv_string raises
HbRecvFail ==
  /\ Resumed
  /\ hb = "recv"
  /\ hb' = "dead"
  /\ ev' = << <<"task", "heartbeat">>, <<"raise", "ZMQError">> >>
  /\ prev' = state
  /\ UNCHANGED <<state, frame, ready, timer, infos, outbox, reqq, repq,
                 unacked, arg, ret>>
  /\ UNCHANGED ctlvars

\* one time unit of the sleep passes
Tick ==
  /\ hb = "sleep"
  /\ timer > 0
  /\ timer' = timer - 1
  /\ UNCHANGED <<state, frame, ready, ev, prev, arg, ret, hb, infos, outbox,
                 reqq, repq, unacked>>
  /\ UNCHANGED ctlvars

\* the reporter going on before the sleep is over
HbWake_early ==
  /\ Resumed
  /\ hb = "sleep"
  /\ UNCHANGED ready
  /\ HbCycle

\* the sleep is over: next iteration
HbWake ==
  /\ Resumed
  /\ hb = "sleep"
  /\ timer = 0
  /\ UNCHANGED ready
  /\ HbCycle

\* the monitor answers the oldest request
MonitorReply ==
  /\ reqq # <<>>
  /\ reqq' = Tail(reqq)
  /\ repq' = Append(repq, "ok")
  /\ UNCHANGED <<state, frame, ready, ev, prev, arg, ret, hb, timer, infos,
                 outbox, unacked>>
  /\ UNCHANGED ctlvars

\* the monitor takes the oldest request and never answers it
MonitorLose ==
  /\ reqq # <<>>
  /\ reqq' = Tail(reqq)
  /\ UNCHANGED <<state, frame, ready, ev, prev, arg, ret, hb, timer, infos,
                 outbox, repq, unacked>>
  /\ UNCHANGED ctlvars

(***************************************************************************)
(* Direct calls of the public methods, from any other callback on the loop *)
(***************************************************************************)
Direct(r) ==
  /\ Idle
  /\ Apply(r)
  /\ UNCHANGED <<ready, arg, ret>>
  /\ UNCHANGED ctlvars
  /\ UNCHANGED hbvars

LocalStart ==
  /\ Direct(start(state))
  /\ frame' = IF start(state).ok THEN "start" ELSE "none"

LocalStop == Direct(stop(state)) /\ UNCHANGED frame

LocalRun == Direct(run(state)) /\ UNCHANGED frame

LocalPub == Direct(pub_msg(state)) /\ UNCHANGED frame

LocalSub == Direct(sub_msg(state)) /\ UNCHANGED frame

LocalStatus ==
  /\ Idle
  /\ ret' = status(state)
  /\ ev' = << <<"call", "status">> >>
  /\ prev' = state
  /\ UNCHANGED <<state, frame, ready, arg>>
  /\ UNCHANGED ctlvars
  /\ UNCHANGED hbvars

\* _set_state called with any argument
LocalSetState ==
  /\ Idle
  /\ \E x \in StateArgs :
       /\ Apply(_set_state(state, x))
       /\ arg' = x
  /\ UNCHANGED <<frame, ready, ret>>
  /\ UNCHANGED ctlvars
  /\ UNCHANGED hbvars

(***************************************************************************)
(* Specifications                                                          *)
(***************************************************************************)
\* the process that start_service runs, with the monitor and the clock
Next ==
  \/ BootStart
  \/ StartRun
  \/ CtlBoot
  \/ CtlRecv
  \/ CtlRecvFail
  \/ MonitorPublish
  \/ HbBoot
  \/ HbSendOk
  \/ HbSendFail
  \/ HbRecvOk
  \/ HbRecvFail
  \/ Tick
  \/ HbWake
  \/ MonitorReply
  \/ MonitorLose

Spec == Init /\ [][Next]_vars

\* the same, with direct calls of start, stop and run from other callbacks
NextLocal ==
  \/ Next
  \/ LocalStart
  \/ LocalStop
  \/ LocalRun

SpecLocal == Init /\ [][NextLocal]_vars

\* a constructed ServiceBase whose methods are called directly, one call
\* after the other, with no event loop running (as a unit test drives it)
NextApi ==
  \/ LocalSetState
  \/ LocalStart
  \/ StartRun
  \/ LocalStop
  \/ LocalRun
  \/ LocalPub
  \/ LocalSub
  \/ LocalStatus

SpecApi == Init /\ [][NextApi]_vars

\* The loop runs every callback that is ready: the three spawned ones, and
\* the listener once a message is on its socket.  Nothing is assumed of the
\* monitor, the transport or the reporter.
SpecFair ==
  /\ Spec
  /\ WF_vars(BootStart)
  /\ WF_vars(StartRun)
  /\ WF_vars(CtlBoot)
  /\ WF_vars(HbBoot)
  /\ WF_vars(CtlRecv)

\* The same process with a monitor that answers every request it gets and
\* a transport that delivers: a pending send completes, a request on the
\* wire is answered, the reply resumes the reporter, time passes.  The
\* coroutines may still die of an exception.
NextHealthy ==
  \/ BootStart
  \/ StartRun
  \/ CtlBoot
  \/ CtlRecv
  \/ CtlRecvFail
  \/ MonitorPublish
  \/ HbBoot
  \/ HbSendOk
  \/ HbSendFail
  \/ HbRecvOk
  \/ HbRecvFail
  \/ Tick
  \/ HbWake
  \/ MonitorReply

SpecHealthy ==
  /\ Init
  /\ [][NextHealthy]_vars
  /\ WF_vars(BootStart)
  /\ WF_vars(StartRun)
  /\ WF_vars(CtlBoot)
  /\ WF_vars(HbBoot)
  /\ WF_vars(CtlRecv)
  /\ WF_vars(HbSendOk)
  /\ WF_vars(MonitorReply)
  /\ WF_vars(HbRecvOk)
  /\ WF_vars(Tick)
  /\ WF_vars(HbWake)

TypeOK ==
  /\ state \in ServiceState
  /\ frame \in {"none", "start"}
  /\ ctl \in {"boot", "recv", "dead"}
  /\ hb \in {"boot", "send", "recv", "sleep", "dead"}
  /\ timer \in 0..HeartbeatInterval
  /\ Len(subq) <= MaxQueue

(***************************************************************************)
(* Vocabulary of the properties: what the last step of the worker did      *)
(***************************************************************************)
Called(e, f) == \E i \in 1..Len(e) : e[i] = <<"call", f>>

CountCalls(e, f) == Cardinality({i \in 1..Len(e) : e[i] = <<"call", f>>})

HookCalls(e) == CountCalls(e, "pub_msg") + CountCalls(e, "sub_msg")

Raised(e) == \E i \in 1..Len(e) : e[i][1] = "raise"

IsWrite(p) == p[1] = "write"

\* the values assigned to self.state, in order
Writes(e) ==
  LET w == SelectSeq(e, IsWrite) IN [i \in 1..Len(w) |-> w[i][2]]

\* the control message the step received, "" when it received none
Received(e) == IF e # <<>> /\ e[1][1] = "recv" THEN e[1][2] ELSE ""

\* the step was a direct call of f
DirectCall(e, f) == e # <<>> /\ e[1] = <<"call", f>>

\* the step built a heartbeat record
Built(e) == Len(e) = 2 /\ e[1] = <<"task", "heartbeat">> /\ e[2][1] = "build"

\* the state a heartbeat request carries
Carried(m) == dict_get(m.members, "state")

StopCmd == "{\"sid\": \"servicebase\", \"action\": \"stop\"}"

StartCmd == "{\"sid\": \"servicebase\", \"action\": \"start\"}"

OtherSidWire ==
  { "{\"sid\": \"w2\", \"action\": \"stop\"}",
    "{\"sid\": \"w2\", \"action\": \"start\"}",
    "{\"sid\": \"w2\"}" }

\* the string each of the five states is reported as
ExternalRep(s) ==
  CASE s = ServiceState_init -> "init"
    [] s = ServiceState_starting -> "starting"
    [] s = ServiceState_started -> "started"
    [] s = ServiceState_stopping -> "stopping"
    [] s = ServiceState_stopped -> "stopped"

(***************************************************************************)
(* C1: _set_state(S) with S one of the five members succeeds, the state is *)
(* S and status() then returns S's string; with any other argument it      *)
(* raises and the state is what it was before the call.                    *)
(***************************************************************************)
C1_SetStateValidates ==
  /\ DirectCall(ev, "_set_state") =>
       IF IsEnumInstance(arg) /\ arg \in ServiceState
       THEN /\ ~Raised(ev)
            /\ state = arg
            /\ status(state) = ExternalRep(arg)
       ELSE /\ Raised(ev)
            /\ state = prev
            /\ Writes(ev) = <<>>
  /\ DirectCall(ev, "status") => ret = ExternalRep(state) /\ state = prev

\* an argument outside the set has just been refused, the state kept
C1_Witness ==
  /\ DirectCall(ev, "_set_state")
  /\ arg = Plain("started")
  /\ Raised(ev)
  /\ state = ServiceState_stopping
  /\ ret = "stopping"

(***************************************************************************)
(* C2: run() entered while the state is started changes nothing: the state *)
(* is started afterwards, self.state is not assigned and no hook is        *)
(* called.                                                                 *)
(***************************************************************************)
C2_RunWhileStartedIsNoop ==
  (Called(ev, "run") /\ prev = ServiceState_started) =>
    /\ state = ServiceState_started
    /\ Writes(ev) = <<>>
    /\ HookCalls(ev) = 0
    /\ ~Raised(ev)

C2_Witness ==
  /\ Called(ev, "run")
  /\ prev = ServiceState_started
  /\ state = ServiceState_started
  /\ ev[Len(ev)] = <<"log", "error.run">>

(***************************************************************************)
(* C3 as stated: run() entered while the state is init, starting or        *)
(* stopped sets the state to started and calls the worker-body hook        *)
(* exactly once.                                                           *)
(***************************************************************************)
C3_Original ==
  (Called(ev, "run")
     /\ prev \in {ServiceState_init, ServiceState_starting, ServiceState_stopped}) =>
    /\ state = ServiceState_started
    /\ HookCalls(ev) = 1

(***************************************************************************)
(* C3 amended: run() entered while the state is init, starting or stopped  *)
(* sets the state to started by one assignment and calls no hook: neither  *)
(* pub_msg nor sub_msg is called by the base class.                        *)
(***************************************************************************)
C3_RunSetsStartedNoHook ==
  (Called(ev, "run")
     /\ prev \in {ServiceState_init, ServiceState_starting, ServiceState_stopped}) =>
    /\ state = ServiceState_started
    /\ Writes(ev) = <<"started">>
    /\ HookCalls(ev) = 0

C3_Witness ==
  /\ DirectCall(ev, "run")
  /\ prev = ServiceState_init
  /\ state = ServiceState_started

(***************************************************************************)
(* C4: stop() sets the state to stopped whatever the state was, by one     *)
(* assignment of stopped (never stopping); stop() on stopped leaves it     *)
(* stopped.                                                                *)
(***************************************************************************)
C4_StopUnconditional ==
  Called(ev, "stop") =>
    /\ state = ServiceState_stopped
    /\ Writes(ev) = <<"stopped">>
    /\ ~Raised(ev)

C4_Witness ==
  /\ DirectCall(ev, "stop")
  /\ prev = ServiceState_stopping
  /\ state = ServiceState_stopped

(***************************************************************************)
(* C5: a control message whose sid is not the worker's leaves the state as *)
(* it was, calls no method and no hook, raises nothing, and the listener   *)
(* is back in recv_string.                                                 *)
(***************************************************************************)
C5_OtherSidIgnored ==
  Received(ev) \in OtherSidWire =>
    /\ state = prev
    /\ Len(ev) = 1
    /\ ctl = "recv"

C5_Witness ==
  /\ Received(ev) = "{\"sid\": \"w2\", \"action\": \"stop\"}"
  /\ state = ServiceState_started
  /\ ctl = "recv"

(***************************************************************************)
(* C6: a stop command for this worker makes exactly one stop() call and    *)
(* no run() or start(); a start command makes exactly one run() call and   *)
(* no stop() or start(), so from stopped the state goes to started and is  *)
(* starting only inside a start() call.                                    *)
(***************************************************************************)
C6_OneTransitionCall ==
  /\ Received(ev) = StopCmd =>
       /\ CountCalls(ev, "stop") = 1
       /\ CountCalls(ev, "run") = 0
       /\ CountCalls(ev, "start") = 0
  /\ Received(ev) = StartCmd =>
       /\ CountCalls(ev, "run") = 1
       /\ CountCalls(ev, "stop") = 0
       /\ CountCalls(ev, "start") = 0
       /\ \A i \in 1..Len(Writes(ev)) : Writes(ev)[i] # "starting"
       /\ state = ServiceState_started
  /\ state = ServiceState_starting => frame = "start" /\ DirectCall(ev, "start")

C6_Witness ==
  /\ Received(ev) = StartCmd
  /\ prev = ServiceState_stopped
  /\ state = ServiceState_started

(***************************************************************************)
(* C7: at boot the state leaves init only for starting and starting only   *)
(* for started, and the first heartbeat record is built when the state is  *)
(* started and carries "started".                                          *)
(***************************************************************************)
C7_BootSequence ==
  [][ /\ (state = ServiceState_init /\ state' # state)
           => state' = ServiceState_starting
      /\ (state = ServiceState_starting /\ state' # state)
           => state' = ServiceState_started
      /\ (hb = "boot" /\ hb' # "boot")
           => /\ state = ServiceState_started
              /\ Carried(outbox') = "started" ]_vars

C7_Witness ==
  /\ hb = "send"
  /\ Built(ev)
  /\ prev = ServiceState_started
  /\ Carried(outbox) = "started"
  /\ ctl = "recv"
  /\ subq = <<>>
  /\ reqq = <<>>

(***************************************************************************)
(* C8: a stop command for this worker received while the state is started  *)
(* makes the state stopped; the state then stays stopped until a start     *)
(* command is applied, and a heartbeat record built meanwhile carries      *)
(* "stopped".                                                              *)
(***************************************************************************)
C8_StopThenHeartbeat ==
  /\ (Received(ev) = StopCmd /\ prev = ServiceState_started)
       => state = ServiceState_stopped
  /\ (prev = ServiceState_stopped /\ state # ServiceState_stopped)
       => Received(ev) = StartCmd
  /\ (Built(ev) /\ prev = ServiceState_stopped)
       => Carried(outbox) = "stopped" /\ state = ServiceState_stopped

C8_Witness ==
  /\ Built(ev)
  /\ prev = ServiceState_stopped
  /\ Carried(outbox) = "stopped"
  /\ hb = "send"

(***************************************************************************)
(* C9: at most one heartbeat is unacknowledged; a record is built only by  *)
(* the first run of the reporter or when the reply to the previous one has *)
(* been received and the whole sleep has elapsed; while no reply is there  *)
(* the reporter stays in recv_string (short of a receive error) and sends  *)
(* nothing, and once no reply can come any more that lasts forever.        *)
(***************************************************************************)
C9_RequestAcknowledge ==
  [][ /\ unacked' <= 1
      /\ (outbox' # outbox /\ outbox' # NoMsg)
           => /\ unacked = 0
              /\ hb = "boot" \/ (hb = "sleep" /\ timer = 0)
      /\ (hb = "recv" /\ repq = <<>>)
           => /\ hb' \in {"recv", "dead"}
              /\ unacked' = unacked
              /\ outbox' = outbox
              /\ Len(reqq') <= Len(reqq)
      /\ (hb = "recv" /\ repq = <<>> /\ reqq = <<>>)
           => \/ hb' = "recv" /\ repq' = <<>> /\ reqq' = <<>>
              \/ hb' = "dead" ]_vars

\* the request was taken and never answered: the reporter waits for good
C9_Witness ==
  /\ hb = "recv"
  /\ unacked = 1
  /\ reqq = <<>>
  /\ repq = <<>>
  /\ outbox = NoMsg

(***************************************************************************)
(* C10: under boot, direct start()/stop()/run() calls and control commands *)
(* the state is never stopping, and no heartbeat built or on the wire      *)
(* carries "stopping".                                                     *)
(***************************************************************************)
C10_StoppingUnreachable ==
  /\ state # ServiceState_stopping
  /\ prev # ServiceState_stopping
  /\ outbox # NoMsg => Carried(outbox) # "stopping"
  /\ \A i \in 1..Len(reqq) : Carried(reqq[i]) # "stopping"

\* a stop has been applied and reported: stopped, not stopping
C10_Witness ==
  /\ state = ServiceState_stopped
  /\ reqq # <<>>
  /\ Carried(reqq[1]) = "stopped"

(***************************************************************************)
(* C11 as stated: every change of the state follows the diagram            *)
(* init -> starting -> started -> stopped, with stopped -> starting on a   *)
(* remote start command and any state -> stopped on a remote stop command. *)
(***************************************************************************)
C11_Original ==
  prev # state =>
    \/ prev = ServiceState_init /\ state = ServiceState_starting
    \/ prev = ServiceState_starting /\ state = ServiceState_started
    \/ prev = ServiceState_started /\ state = ServiceState_stopped
    \/ /\ prev = ServiceState_stopped
       /\ state = ServiceState_starting
       /\ Received(ev) = StartCmd
    \/ state = ServiceState_stopped /\ Received(ev) = StopCmd

(***************************************************************************)
(* C11 amended: the state changes only along init -> starting (start),     *)
(* starting -> started (its run), started -> stopped (remote stop) and     *)
(* stopped -> started (remote start, by one assignment: starting is not    *)
(* entered again); a remote stop command always ends in stopped.           *)
(***************************************************************************)
C11_Lifecycle ==
  /\ prev # state =>
       \/ /\ prev = ServiceState_init
          /\ state = ServiceState_starting
          /\ DirectCall(ev, "start")
       \/ /\ prev = ServiceState_starting
          /\ state = ServiceState_started
          /\ DirectCall(ev, "run")
       \/ /\ prev = ServiceState_started
          /\ state = ServiceState_stopped
          /\ Received(ev) = StopCmd
       \/ /\ prev = ServiceState_stopped
          /\ state = ServiceState_started
          /\ Received(ev) = StartCmd
  /\ Received(ev) = StopCmd => state = ServiceState_stopped
  /\ (Received(ev) = StartCmd /\ prev = ServiceState_stopped) =>
       /\ state = ServiceState_started
       /\ Writes(ev) = <<"started">>

\* a restart by remote command: stopped to started in one assignment
C11_Witness ==
  /\ Received(ev) = StartCmd
  /\ prev = ServiceState_stopped
  /\ state = ServiceState_started
  /\ Writes(ev) = <<"started">>
  /\ ctl = "recv"
  /\ frame = "none"

(***************************************************************************)
(* C12: an exception raised by send_string or recv_string in the reporter  *)
(* ends the reporter: the state is left as it was, and from then on the    *)
(* reporter builds and sends nothing.                                      *)
(***************************************************************************)
C12_HeartbeatFailureFatal ==
  [][ /\ (hb \in {"send", "recv"} /\ hb' # hb /\ Raised(ev'))
           => /\ hb' = "dead"
              /\ state' = state
              /\ Len(reqq') <= Len(reqq)
      /\ hb = "dead"
           => /\ hb' = "dead"
              /\ outbox' = outbox
              /\ infos' = infos
              /\ Len(reqq') <= Len(reqq)
              /\ unacked' = unacked ]_vars

\* the reporter died waiting for a reply, the service being stopped
C12_Witness ==
  /\ hb = "dead"
  /\ ev = << <<"task", "heartbeat">>, <<"raise", "ZMQError">> >>
  /\ unacked = 1
  /\ state = ServiceState_stopped

\* the listener takes the oldest message off the SUB socket in this step
CtlTakes == subq # <<>> /\ Len(subq') < Len(subq)

\* the malformed messages of C13: not JSON, no sid key, no action key
MalformedWire ==
  { "stop",
    "{\"action\": \"stop\"}",
    "{\"sid\": \"servicebase\"}",
    "{\"sid\": \"w2\"}" }

\* the messages on which the loop raises
FatalWire ==
  { "stop",
    "[1]",
    "{\"action\": \"stop\"}",
    "{\"sid\": \"servicebase\"}" }

(***************************************************************************)
(* C13 as stated: every message that is not JSON, or lacks the sid key, or *)
(* lacks the action key, ends the listener and leaves the state as it was. *)
(***************************************************************************)
C13_Original ==
  Received(ev) \in MalformedWire => ctl = "dead" /\ state = prev

(***************************************************************************)
(* C13 amended: a message that is not JSON, is not a JSON object, lacks    *)
(* the sid key, or carries this worker's sid and lacks the action key ends *)
(* the listener with the state unchanged, and no later message is taken or *)
(* applied; a message for another sid that lacks the action key is         *)
(* dropped and the listener goes on.                                       *)
(***************************************************************************)
C13_MalformedFatal ==
  [][ /\ (CtlTakes /\ Head(subq) \in FatalWire)
           => /\ ctl' = "dead"
              /\ state' = state
              /\ Raised(ev')
      /\ (CtlTakes /\ Head(subq) = "{\"sid\": \"w2\"}")
           => /\ ctl' = "recv"
              /\ state' = state
              /\ ~Raised(ev')
      /\ ctl = "dead"
           => /\ ctl' = "dead"
              /\ state' = state
              /\ Len(subq') >= Len(subq) ]_vars

\* the listener died on a message without action; a stop command sent
\* afterwards waits on the socket and the service stays started
C13_Witness ==
  /\ ctl = "dead"
  /\ Received(ev) = "{\"sid\": \"servicebase\"}"
  /\ Raised(ev)
  /\ subq = << StopCmd >>
  /\ state = ServiceState_started

PauseCmd == "{\"sid\": \"servicebase\", \"action\": \"pause\"}"

(***************************************************************************)
(* C14: a command for this worker whose action is neither start nor stop   *)
(* leaves the state as it was, calls nothing, raises nothing, and the      *)
(* listener is back in recv_string, where it takes the next message.       *)
(***************************************************************************)
C14_OtherActionIgnored ==
  [][ /\ (CtlTakes /\ Head(subq) = PauseCmd)
           => /\ state' = state
              /\ ev' = << <<"recv", PauseCmd>> >>
              /\ ctl' = "recv"
      /\ (CtlTakes /\ Received(ev) = PauseCmd /\ Head(subq) = StopCmd)
           => state' = ServiceState_stopped ]_vars

\* a stopped service has ignored a pause command
C14_Witness ==
  /\ Received(ev) = PauseCmd
  /\ Len(ev) = 1
  /\ prev = ServiceState_stopped
  /\ state = ServiceState_stopped
  /\ ctl = "recv"

(***************************************************************************)
(* C15: a stop command for this worker that is the oldest message on the   *)
(* socket of a live listener while the reporter is suspended (in send, in  *)
(* recv, in its sleep) is eventually applied and the state is stopped,     *)
(* unless the listener dies of a receive error first.                      *)
(***************************************************************************)
C15_StopAppliedWhateverHeartbeat ==
  (/\ ctl = "recv"
   /\ subq # <<>>
   /\ Head(subq) = StopCmd
   /\ hb \in {"send", "recv", "sleep"})
    ~> (\/ Received(ev) = StopCmd /\ state = ServiceState_stopped
        \/ ctl = "dead")

\* the stop was applied while the reporter waits for a reply that was never
\* sent
C15_Witness ==
  /\ Received(ev) = StopCmd
  /\ prev = ServiceState_started
  /\ state = ServiceState_stopped
  /\ hb = "recv"
  /\ reqq = <<>>
  /\ repq = <<>>
  /\ unacked = 1

\* the 'set server state to ...' records among the events
StateLogs(e) == Cardinality({i \in 1..Len(e) : e[i] = <<"log", "info.set">>})

(***************************************************************************)
(* C16: every assignment of self.state comes with a log record of the new  *)
(* state: in each step of the worker, and so in every run, there are as    *)
(* many state log records as assignments, the one in run() included.       *)
(***************************************************************************)
C16_EveryWriteLogged == StateLogs(ev) = Len(Writes(ev))

(***************************************************************************)
(* C17: every heartbeat record built has sid = the worker's sid, type =    *)
(* "heartbeat" and state = the string of the worker's state at that        *)
(* moment, whatever keys the caller's infos holds, and it goes on the wire *)
(* as built (so what the monitor reads may no longer be the state).        *)
(***************************************************************************)
C17_HeartbeatFields ==
  [][ /\ (outbox' # outbox /\ outbox' # NoMsg)
           => /\ dict_get(outbox'.members, "sid") = sid
              /\ dict_get(outbox'.members, "type") = "heartbeat"
              /\ Carried(outbox') = ExternalRep(state)
              /\ state' = state
      /\ Len(reqq') > Len(reqq)
           => reqq' = Append(reqq, outbox) ]_vars

\* a record built from infos that held its own sid, state and type is on
\* the wire saying started, and the service has been stopped meanwhile
C17_Witness ==
  /\ reqq # <<>>
  /\ reqq[1].members =
       << <<"sid", sid>>, <<"state", "started">>, <<"type", "heartbeat">> >>
  /\ state = ServiceState_stopped

(***************************************************************************)
(* C18: a failure that ends one loop ends the process in the end: once the *)
(* listener has died, the worker does not go on sending heartbeats for     *)
(* ever; from some point on nothing more is handed to send_string.         *)
(***************************************************************************)
C18_NoHeartbeatAfterListenerDeath ==
  (ctl = "dead") ~> [](outbox = NoMsg)

\* the start() spawned at boot has run to its end
BootStartDone == frame = "none" /\ Len(ready) < Len(start_service)

(***************************************************************************)
(* C19: once the boot start() has returned, whatever control messages      *)
(* arrive, the state is started or stopped; it is init only before start() *)
(* has run and starting only inside start(), and no control message        *)
(* assigns init or starting.                                               *)
(***************************************************************************)
C19_AfterBootStartedOrStopped ==
  /\ BootStartDone =>
       state \in {ServiceState_started, ServiceState_stopped}
  /\ state = ServiceState_init => ready = start_service
  /\ state = ServiceState_starting => frame = "start"
  /\ Received(ev) # "" =>
       \A i \in 1..Len(Writes(ev)) : Writes(ev)[i] \in {"started", "stopped"}

\* after boot, a stop command has been applied
C19_Witness ==
  /\ BootStartDone
  /\ ready = <<>>
  /\ Received(ev) = StopCmd
  /\ Writes(ev) = <<"stopped">>
  /\ state = ServiceState_stopped
  /\ hb = "sleep"

(***************************************************************************)
(* C20: the already-started guard of run() never fires on the start()      *)
(* path: start() called in any state, started included, first overwrites   *)
(* the state with starting, so the run() it awaits takes the unguarded     *)
(* branch and the state is started when start() returns; a direct run() on *)
(* a started service takes the guard and changes nothing.                  *)
(***************************************************************************)
C20_GuardNeverFiresUnderStart ==
  [][ /\ (frame = "none" /\ frame' = "start") =>
           /\ DirectCall(ev', "start")
           /\ state' = ServiceState_starting
           /\ Writes(ev') = <<"starting">>
      /\ frame = "start" =>
           /\ state = ServiceState_starting
           /\ ev' = << <<"call", "run">>, <<"write", "started">> >>
           /\ state' = ServiceState_started
           /\ frame' = "none"
      /\ (frame = "none" /\ state = ServiceState_started
            /\ DirectCall(ev', "run") /\ prev' = state) =>
           /\ state' = ServiceState_started
           /\ Writes(ev') = <<>>
           /\ ev'[2] = <<"log", "error.run">> ]_vars

\* start() was called on a started service and is about to await run()
C20_Witness ==
  /\ frame = "start"
  /\ DirectCall(ev, "start")
  /\ prev = ServiceState_started
  /\ state = ServiceState_starting
====
